---- MODULE Spec2Model ----
(***************************************************************************)
(* Model of the Hugging Face repository provisioning helpers:              *)
(*   app/hugging_face.py                  HuggingFaceRepositoryCreator     *)
(*   deployment/hugging_face_space/hub.py create_repository_on_hub,        *)
(*                                        clone_repository_from_hub        *)
(* The hub, the git client and the filesystem are modelled by what the     *)
(* calls made by the code do to them; every public operation is one        *)
(* action, and the outcomes of the remote calls are chosen by the          *)
(* environment.                                                            *)
(***************************************************************************)
EXTENDS Integers, Sequences, FiniteSets, TLC

VARIABLES
    fs,       \* files on disk: file path -> content
    dirs,     \* directories on disk
    hub,      \* repositories on the hub: repo id -> [exists, created, files]
    clones,   \* git working copies: directory -> [remote, head]
    self,     \* attributes of the HuggingFaceRepositoryCreator instance
    call,     \* the last public call: operation, arguments, outcomes of the remote calls
    steps,    \* the primitive steps the last call invoked, in order
    err,      \* the exception the last call raised to its caller, or "none"
    ret,      \* the value the last call returned
    ncalls    \* number of public calls made so far

vars == <<fs, dirs, hub, clones, self, call, steps, err, ret, ncalls>>

(* ------------------------------ bounds -------------------------------- *)

MaxCalls == 3

(* ----------------------------- constants ------------------------------ *)

\* an attribute that was never assigned, Python's None, and a present value
Unset == <<>>
None == <<>>
Some(x) == <<x>>
Get(o) == o[1]
NoError == "none"

Namespace == "widium"
RepoNames == {"demo"}
\* "out" is a directory of the current directory, "missing" is not
Destinations == {".", "out", "missing"}
CreatorDestinations == {".", "out"}

AppTemplate ==
    "import gradio as gr\n\ndef greet(name):\n    return 'Hello ' + name + '!!'\niface = gr.Interface(fn=greet, inputs='text', outputs='text')\niface.launch()\n"

CommitMessage == "Initialize Repository App"

(* ------------------------------- paths -------------------------------- *)

\* pathlib.Path(s) for a one-component string: Path(".") has no component
Path(s) == IF s = "." THEN <<>> ELSE <<s>>

\* the / operator of pathlib on a directory and a name
Join(d, name) == Append(d, name)

\* a file path: its directory, the stem and the suffix of its last component
File(d, stem, suffix) == [dir |-> d, stem |-> stem, suffix |-> suffix]

IsPrefix(d, s) == Len(d) <= Len(s) /\ SubSeq(s, 1, Len(d)) = d

Prefixes(d) == {SubSeq(d, 1, n) : n \in 0..Len(d)}

\* the path of p relative to the directory d
Rel(p, d) == File(SubSeq(p.dir, Len(d) + 1, Len(p.dir)), p.stem, p.suffix)

\* the path of the relative path r below the directory d
Abs(r, d) == File(d \o r.dir, r.stem, r.suffix)

FilesUnder(f, d) == {p \in DOMAIN f : IsPrefix(d, p.dir)}

\* the files below d, by relative path
WorkTree(f, d) == [r \in {Rel(p, d) : p \in FilesUnder(f, d)} |-> f[Abs(r, d)]]

IsEmptyDir(f, ds, d) ==
    /\ FilesUnder(f, d) = {}
    /\ {x \in ds : IsPrefix(d, x) /\ x # d} = {}

EmptyTree == [r \in {} |-> ""]

RepoIds == [namespace : {Namespace}, name : RepoNames]
Url(id) == [url |-> id]
Urls == {Url(id) : id \in RepoIds}

RootDirs == {Join(Path(dst), n) : dst \in CreatorDestinations, n \in RepoNames}

\* the content the hub gives a new repository
SeedTree == (File(<<>>, "README", ".md") :> "hub readme")

\* the content of a repository that existed on the hub beforehand
ExistingTree ==
    (File(<<>>, "README", ".md") :> "hub readme")
    @@ (File(<<>>, "requirements", ".txt") :> "numpy")
    @@ (File(<<>>, "app", ".py") :> "old app")
    @@ (File(<<"examples">>, "cat", ".txt") :> "cat")

\* files the caller may hand over as app file, outside the working copies
SourceFiles ==
    { File(<<>>, "my_app", ".py"),
      File(<<>>, "tool", ".txt") }

\* files of the working copy d the caller may hand over as app file
InsideFiles(d) == { File(d, "README", ".md"), File(d, "my_app", ".py") }

(* ----------------------- outcomes of remote calls ---------------------- *)

AllOk == [whoami |-> "ok", create_repo |-> "ok", clone |-> "ok", push |-> "ok"]

\* what the remote calls of one public call answer: all succeed, or one fails
WhoamiFailures ==
    {[AllOk EXCEPT !.whoami = k] : k \in {"AuthenticationError", "NetworkError"}}
CreateRepoFailures == {[AllOk EXCEPT !.create_repo = "InvalidConfigurationError"]}
CloneFailures == {[AllOk EXCEPT !.clone = "CloneError"]}
PushFailures == {[AllOk EXCEPT !.push = "VersionControlError"]}

(* ------------------------------ the world ------------------------------ *)

\* the state a call starts from
World ==
    [fs |-> fs, dirs |-> dirs, hub |-> hub, clones |-> clones, self |-> self,
     steps |-> <<>>, err |-> NoError, ret |-> None]

Raise(w, kind) == [w EXCEPT !.err = kind]
Step(w, s, d) == [w EXCEPT !.steps = Append(@, [step |-> s, dir |-> d])]

(* --------------------------- filesystem calls -------------------------- *)

touch_truncating(f, p) == [q \in DOMAIN f \cup {p} |-> IF q = p THEN "" ELSE f[q]]

\* Path.touch(): creates the file empty when absent, keeps it otherwise
touch(f, p) == IF p \in DOMAIN f THEN f ELSE f @@ (p :> "")

\* open("w") followed by write(c): the file holds exactly c afterwards
write_text(f, p, c) == [q \in DOMAIN f \cup {p} |-> IF q = p THEN c ELSE f[q]]

\* Path.exists() of a directory path
exists(w, d) == d \in w.dirs

\* Path.mkdir(parents=True, exist_ok=True)
mkdir(ds, d) == ds \cup Prefixes(d)

move_as_copy(f, src, dst) ==
    [q \in DOMAIN f \cup {dst} |-> IF q = dst THEN f[src] ELSE f[q]]

\* shutil.move(src, dst) of an existing file: a rename, which replaces dst
\* and is a no-op when src and dst are the same file
move(f, src, dst) ==
    IF src = dst THEN f
    ELSE [q \in (DOMAIN f \ {src}) \cup {dst} |-> IF q = dst THEN f[src] ELSE f[q]]

(* ------------------------------ hub calls ------------------------------ *)

\* HfApi.whoami(token): the user's name, or the failure the hub answers with
whoami(w, e) ==
    LET w1 == Step(w, "whoami", <<>>)
    IN  IF e.whoami # "ok" THEN Raise(w1, e.whoami)
        ELSE [w1 EXCEPT !.ret = Some(Namespace)]

\* huggingface_hub.create_repo(repo_id, ..., exist_ok)
create_repo(w, repo_id, exist_ok, e) ==
    LET w1 == Step(w, "create_repo", <<>>)
    IN  IF e.create_repo # "ok" THEN Raise(w1, e.create_repo)
        ELSE IF w.hub[repo_id].exists
        THEN IF exist_ok THEN [w1 EXCEPT !.ret = Some(Url(repo_id))]
             ELSE Raise(w1, "HfHubHTTPError")
        ELSE [w1 EXCEPT
                !.hub[repo_id] = [exists |-> TRUE, created |-> @.created + 1,
                                  files |-> SeedTree],
                !.ret = Some(Url(repo_id))]

(* ------------------------------ git calls ------------------------------ *)

\* huggingface_hub.Repository(local_dir, clone_from, use_auth_token):
\* creates local_dir, then clones into it when it is empty, accepts it when
\* it already is a clone of the same remote, and refuses it otherwise
Repository(w, local_dir, clone_from, e) ==
    LET w1 == Step([w EXCEPT !.dirs = mkdir(@, local_dir)], "clone", local_dir)
    IN  IF e.clone # "ok" THEN Raise(w1, e.clone)
        ELSE IF ~w.hub[clone_from.url].exists THEN Raise(w1, "EnvironmentError")
        ELSE IF local_dir \in DOMAIN w.clones
        THEN IF w.clones[local_dir].remote = clone_from.url
             THEN [w1 EXCEPT !.ret = Some(local_dir)]
             ELSE Raise(w1, "EnvironmentError")
        ELSE IF ~IsEmptyDir(w.fs, w.dirs, local_dir) THEN Raise(w1, "EnvironmentError")
        ELSE LET tree == w.hub[clone_from.url].files
             IN  [w1 EXCEPT
                    !.fs = [p \in DOMAIN w.fs \cup {Abs(r, local_dir) : r \in DOMAIN tree} |->
                              IF p \in DOMAIN w.fs THEN w.fs[p] ELSE tree[Rel(p, local_dir)]],
                    !.dirs = @ \cup UNION {Prefixes(Abs(r, local_dir).dir) : r \in DOMAIN tree},
                    !.clones = @ @@ (local_dir :> [remote |-> clone_from.url, head |-> tree]),
                    !.ret = Some(local_dir)]

\* Repository.git_add(): stages every change of the working copy
git_add(w, h) == Step(w, "git_add", h)

\* Repository.git_commit(commit_message): git refuses a commit that changes
\* nothing, and the refusal is raised as EnvironmentError
git_commit(w, h, message) ==
    LET w1 == Step(w, "git_commit", h)
    IN  IF WorkTree(w.fs, h) = w.clones[h].head THEN Raise(w1, "EnvironmentError")
        ELSE [w1 EXCEPT !.clones[h].head = WorkTree(w.fs, h)]

\* Repository.git_push(): the remote takes the committed tree, or rejects it
git_push(w, h, e) ==
    LET w1 == Step(w, "git_push", h)
    IN  IF e.push # "ok" THEN Raise(w1, e.push)
        ELSE [w1 EXCEPT !.hub[w.clones[h].remote].files = w.clones[h].head]

(* -------------------- HuggingFaceRepositoryCreator --------------------- *)

exist_ok_dropped == FALSE

\* the exist_ok argument of the create_repo call
exist_ok == TRUE

create_repository_on_hub(w, repo_name, destination, e) ==
    LET w1 == whoami(w, e)
    IN  IF w1.err # NoError THEN w1
        ELSE
        LET repo_full_name == [namespace |-> Get(w1.ret), name |-> repo_name]
            w2 == [w1 EXCEPT !.self.namespace = w1.ret,
                             !.self.repo_full_name = Some(repo_full_name),
                             !.self.destination_path = Some(Join(Path(destination), repo_name))]
            w3 == create_repo(w2, repo_full_name, exist_ok, e)
        IN  IF w3.err # NoError THEN w3
            ELSE [w3 EXCEPT !.self.repo_url = w3.ret, !.ret = None]

clone_repository(w, repo_url, destination_path, e) ==
    LET w1 == Repository(w, destination_path, repo_url, e)
    IN  IF w1.err # NoError THEN w1
        ELSE [w1 EXCEPT !.self.repository = w1.ret, !.ret = None]

create_simple_app_file_if_absent(w, repository_path) ==
    LET app_filepath == File(repository_path, "app", ".py")
        w1 == Step([w EXCEPT !.fs = touch(@, app_filepath)], "touch_app", repository_path)
    IN  Step([w1 EXCEPT !.fs = IF app_filepath \in DOMAIN w.fs THEN @
                                ELSE write_text(@, app_filepath, AppTemplate)],
             "write_app", repository_path)

create_simple_app_file(w, repository_path) ==
    LET app_filepath == File(repository_path, "app", ".py")
        w1 == Step([w EXCEPT !.fs = touch(@, app_filepath)], "touch_app", repository_path)
    IN  Step([w1 EXCEPT !.fs = write_text(@, app_filepath, AppTemplate)],
             "write_app", repository_path)

move_app_file(w, app_filepath, repository_path) ==
    LET app_filename == app_filepath.stem
        new_app_filepath == File(repository_path, app_filename, ".py")
        w1 == Step(w, "move_app", repository_path)
    IN  IF app_filepath \notin DOMAIN w.fs THEN Raise(w1, "FileNotFoundError")
        ELSE [w1 EXCEPT !.fs = move(@, app_filepath, new_app_filepath)]

setup_repository(w, repository_path, app_filepath, e) ==
    LET examples_path == Join(repository_path, "examples")
        requirement_path == File(repository_path, "requirements", ".txt")
        readme_path == File(repository_path, "README", ".md")
        w1 == Step([w EXCEPT !.dirs = mkdir(@, examples_path)], "mkdir_examples", repository_path)
        w2 == Step([w1 EXCEPT !.fs = touch(@, requirement_path)], "touch_requirements", repository_path)
        w3 == Step([w2 EXCEPT !.fs = touch(@, readme_path)], "touch_readme", repository_path)
        w4 == IF app_filepath = None
              THEN create_simple_app_file(w3, repository_path)
              ELSE move_app_file(w3, Get(app_filepath), repository_path)
    IN  IF w4.err # NoError THEN w4
        ELSE IF w4.self.repository = Unset
        THEN Raise(Step(w4, "git_add", repository_path), "AttributeError")
        ELSE
        LET h == Get(w4.self.repository)
            w5 == git_add(w4, h)
            w6 == git_commit(w5, h, CommitMessage)
        IN  IF w6.err # NoError THEN w6
            ELSE [git_push(w6, h, e) EXCEPT !.ret = None]

create_repository_wrapping(w, repo_name, destination, source_app_file, e) ==
    IF source_app_file # None THEN Raise(w, "TypeError")
    ELSE
    LET w1 == create_repository_on_hub(w, repo_name, destination, e)
    IN  IF w1.err # NoError THEN Raise(w1, "RuntimeError")
        ELSE
        LET w2 == clone_repository(w1, Get(w1.self.repo_url), Get(w1.self.destination_path), e)
        IN  IF w2.err # NoError THEN Raise(w2, "RuntimeError")
            ELSE
            LET w3 == setup_repository(w2, Get(w2.self.destination_path), None, e)
            IN  IF w3.err # NoError THEN Raise(w3, "RuntimeError")
                ELSE [w3 EXCEPT !.ret = w3.self.repository]

\* create_repository takes no app file: a call that passes one is refused
\* by the interpreter before the body runs
create_repository(w, repo_name, destination, source_app_file, e) ==
    IF source_app_file # None THEN Raise(w, "TypeError")
    ELSE
    LET w1 == create_repository_on_hub(w, repo_name, destination, e)
    IN  IF w1.err # NoError THEN w1
        ELSE
        LET w2 == clone_repository(w1, Get(w1.self.repo_url), Get(w1.self.destination_path), e)
        IN  IF w2.err # NoError THEN w2
            ELSE
            LET w3 == setup_repository(w2, Get(w2.self.destination_path), None, e)
            IN  IF w3.err # NoError THEN w3
                ELSE [w3 EXCEPT !.ret = w3.self.repository]

(* ------------------------------- hub.py -------------------------------- *)

\* the exist_ok argument of the create_repo call
hub_exist_ok == TRUE

hub_create_repository_on_hub(w, namespace, repo_name, e) ==
    LET repo_full_name == [namespace |-> namespace, name |-> repo_name]
    IN  create_repo(w, repo_full_name, hub_exist_ok, e)

clone_repository_from_hub_no_fallback(w, repo_url, repo_name, destination_path, e) ==
    Repository(w, Join(Path(destination_path), repo_name), repo_url, e)

clone_repository_from_hub(w, repo_url, repo_name, destination_path, e) ==
    LET joined == Join(Path(destination_path), repo_name)
        target == IF ~exists(w, joined)
                  THEN Join(Path("."), repo_name)
                  ELSE joined
    IN  Repository(w, target, repo_url, e)

(* ---------------------------- the state machine ------------------------ *)

NoCall ==
    [op |-> "none", repo_name |-> "", destination |-> "", path |-> None,
     url |-> None, app |-> None, env |-> AllOk]

InitHub ==
    { [id \in RepoIds |-> [exists |-> FALSE, created |-> 0, files |-> EmptyTree]],
      [id \in RepoIds |-> [exists |-> TRUE, created |-> 1, files |-> ExistingTree]] }

Init ==
    /\ fs = (File(<<>>, "my_app", ".py") :> "custom code")
            @@ (File(<<>>, "tool", ".txt") :> "tool code")
    /\ dirs = {<<>>, <<"out">>}
    /\ hub \in InitHub
    /\ clones = [d \in {} |-> [remote |-> None, head |-> EmptyTree]]
    /\ self = [namespace |-> Unset, repo_full_name |-> Unset, destination_path |-> Unset,
               repo_url |-> Unset, repository |-> Unset]
    /\ call = NoCall
    /\ steps = <<>>
    /\ err = NoError
    /\ ret = None
    /\ ncalls = 0

\* the call ends in the world w
Do(w, c) ==
    /\ ncalls < MaxCalls
    /\ ncalls' = ncalls + 1
    /\ call' = c
    /\ fs' = w.fs
    /\ dirs' = w.dirs
    /\ hub' = w.hub
    /\ clones' = w.clones
    /\ self' = w.self
    /\ steps' = w.steps
    /\ err' = w.err
    /\ ret' = IF w.err = NoError THEN w.ret ELSE None

CallCreateRepositoryOnHub ==
    \E repo_name \in RepoNames, destination \in CreatorDestinations,
       e \in {AllOk} \cup WhoamiFailures \cup CreateRepoFailures :
        Do(create_repository_on_hub(World, repo_name, destination, e),
           [NoCall EXCEPT !.op = "create_repository_on_hub", !.repo_name = repo_name,
                          !.destination = destination, !.env = e])

CallCloneRepository ==
    \E repo_url \in Urls, destination_path \in RootDirs,
       e \in {AllOk} \cup CloneFailures :
        Do(clone_repository(World, repo_url, destination_path, e),
           [NoCall EXCEPT !.op = "clone_repository", !.url = Some(repo_url),
                          !.path = Some(destination_path), !.env = e])

CallSetupRepository ==
    \E repository_path \in RootDirs, e \in {AllOk} \cup PushFailures :
    \E app_filepath \in {None} \cup {Some(f) : f \in SourceFiles \cup InsideFiles(repository_path)} :
        Do(setup_repository(World, repository_path, app_filepath, e),
           [NoCall EXCEPT !.op = "setup_repository", !.path = Some(repository_path),
                          !.app = app_filepath, !.env = e])

CallCreateRepository ==
    \E repo_name \in RepoNames, destination \in CreatorDestinations,
       source_app_file \in {None} \cup {Some(f) : f \in SourceFiles},
       e \in {AllOk} \cup WhoamiFailures \cup CreateRepoFailures
                \cup CloneFailures \cup PushFailures :
        Do(create_repository(World, repo_name, destination, source_app_file, e),
           [NoCall EXCEPT !.op = "create_repository", !.repo_name = repo_name,
                          !.destination = destination, !.app = source_app_file, !.env = e])

CallHubCreateRepositoryOnHub ==
    \E repo_name \in RepoNames, e \in {AllOk} \cup CreateRepoFailures :
        Do(hub_create_repository_on_hub(World, Namespace, repo_name, e),
           [NoCall EXCEPT !.op = "hub.create_repository_on_hub",
                          !.repo_name = repo_name, !.env = e])

CallCloneRepositoryFromHub ==
    \E repo_url \in Urls, repo_name \in RepoNames, destination_path \in Destinations,
       e \in {AllOk} \cup CloneFailures :
        Do(clone_repository_from_hub(World, repo_url, repo_name, destination_path, e),
           [NoCall EXCEPT !.op = "hub.clone_repository_from_hub", !.url = Some(repo_url),
                          !.repo_name = repo_name, !.destination = destination_path,
                          !.env = e])

Next ==
    \/ CallCreateRepositoryOnHub
    \/ CallCloneRepository
    \/ CallSetupRepository
    \/ CallCreateRepository
    \/ CallHubCreateRepositoryOnHub
    \/ CallCloneRepositoryFromHub

Spec == Init /\ [][Next]_vars

TypeOK ==
    /\ ncalls \in 0..MaxCalls
    /\ err \in {NoError, "AuthenticationError", "NetworkError", "InvalidConfigurationError",
                "CloneError", "VersionControlError", "EnvironmentError", "AttributeError",
                "FileNotFoundError", "TypeError", "HfHubHTTPError"}
    /\ \A id \in RepoIds : hub[id].created \in 0..1
    /\ \A d \in DOMAIN clones : d \in dirs /\ hub[clones[d].remote].exists

(* ------------------------------ properties ----------------------------- *)

StepNames(s) == [i \in 1..Len(s) |-> s[i].step]
Reached(s, name) == \E i \in 1..Len(s) : s[i].step = name
LastStep(s) == IF s = <<>> THEN "none" ELSE s[Len(s)].step

\* the step from the state before a public call to the state after it
IsCall(op) == ncalls' = ncalls + 1 /\ call'.op = op

PopulateSteps ==
    {"mkdir_examples", "touch_requirements", "touch_readme", "touch_app", "write_app", "move_app"}

\* the steps of a complete run of create_repository, in order
Pipeline ==
    <<"whoami", "create_repo", "clone", "mkdir_examples", "touch_requirements",
      "touch_readme", "touch_app", "write_app", "git_add", "git_commit", "git_push">>

RepoIdOf(name) == [namespace |-> Namespace, name |-> name]
RequirementsOf(d) == File(d, "requirements", ".txt")
ReadmeOf(d) == File(d, "README", ".md")
AppOf(d) == File(d, "app", ".py")
ExamplesOf(d) == Join(d, "examples")
CatOf(d) == File(ExamplesOf(d), "cat", ".txt")

\* the working copy the last call populated
PopulatedDir(c) ==
    IF c.op = "setup_repository" THEN Get(c.path)
    ELSE Join(Path(c.destination), c.repo_name)

\* C1: in every state, whatever public calls were made, a directory that a
\* call populated with starter files is a clone of a repository of the hub,
\* made before the populate steps, and a push of a call comes after the app
\* file step of that call.
C1_PopulateOnlyAfterClone ==
    \A i \in 1..Len(steps) :
        /\ steps[i].step \in PopulateSteps =>
              /\ steps[i].dir \in DOMAIN clones
              /\ hub[clones[steps[i].dir].remote].exists
              /\ \A j \in i..Len(steps) : steps[j].step # "clone"
        /\ steps[i].step = "git_push" =>
              \E j \in 1..(i - 1) : steps[j].step \in {"write_app", "move_app"}

\* C2: a run of create_repository stops at the first step that fails: the
\* steps it invoked are a prefix of the pipeline, which is complete when no
\* error is raised and ends at the failing step otherwise; the error the caller gets is the one the failing remote
\* call raised; a failure of whoami or create_repo leaves files and
\* directories as they were, and a failure of the clone writes no file.
C2_FirstFailureAborts ==
    [][ (IsCall("create_repository") /\ call'.app = None) =>
          LET e == call'.env
              names == StepNames(steps')
          IN  /\ IsPrefix(names, Pipeline)
              /\ err' = NoError => (names = Pipeline /\ ret' = self'.repository)
              /\ names # Pipeline => err' # NoError
              /\ err' # NoError => ret' = None
              /\ e.whoami # "ok" => err' = e.whoami /\ names = <<"whoami">>
              /\ e.create_repo # "ok" =>
                    err' = e.create_repo /\ names = <<"whoami", "create_repo">>
              /\ e.clone # "ok" =>
                    err' = e.clone /\ names = <<"whoami", "create_repo", "clone">>
              /\ (e.push # "ok" /\ Reached(steps', "git_push")) => err' = e.push
              /\ LastStep(steps') \in {"whoami", "create_repo"} => fs' = fs /\ dirs' = dirs
              /\ LastStep(steps') = "clone" =>
                    /\ fs' = fs
                    /\ \A d \in RootDirs : ExamplesOf(d) \in dirs' => ExamplesOf(d) \in dirs
      ]_vars

\* a run of create_repository in which the clone failed
C2_Witness ==
    /\ call.op = "create_repository"
    /\ call.env.clone = "CloneError"
    /\ err = "CloneError"
    /\ LastStep(steps) = "clone"

\* C3: a create_repo call for a repository that already exists on the hub
\* succeeds: it raises nothing, the caller gets the URL of the existing
\* repository, and the hub still holds that repository once.
C3_CreateExistingSucceeds ==
    [][ ( /\ ncalls' = ncalls + 1
          /\ call'.op \in {"create_repository", "create_repository_on_hub",
                           "hub.create_repository_on_hub"}
          /\ call'.app = None
          /\ call'.env.whoami = "ok" /\ call'.env.create_repo = "ok"
          /\ hub[RepoIdOf(call'.repo_name)].exists ) =>
          LET id == RepoIdOf(call'.repo_name)
          IN  /\ Reached(steps', "create_repo")
              /\ ~(LastStep(steps') = "create_repo" /\ err' # NoError)
              /\ hub'[id].exists /\ hub'[id].created = hub[id].created
              /\ hub'[id].created = 1
              /\ call'.op = "hub.create_repository_on_hub" =>
                    err' = NoError /\ ret' = Some(Url(id))
              /\ call'.op = "create_repository_on_hub" =>
                    err' = NoError /\ self'.repo_url = Some(Url(id))
              /\ call'.op = "create_repository" => self'.repo_url = Some(Url(id))
      ]_vars

\* a second run of create_repository for a repository that an earlier run
\* created and pushed to: it got past create_repo
C3_Witness ==
    /\ call.op = "create_repository"
    /\ Reached(steps, "create_repo")
    /\ LastStep(steps) = "git_commit"
    /\ err = "EnvironmentError"
    /\ hub[RepoIdOf(call.repo_name)].created = 1
    /\ File(<<>>, "app", ".py") \in DOMAIN hub[RepoIdOf(call.repo_name)].files
    /\ File(<<"examples">>, "cat", ".txt") \notin DOMAIN hub[RepoIdOf(call.repo_name)].files

\* what populate keeps of the working copy d: a requirements.txt or README.md
\* in Kept that holds content, and the examples directory with its files
Preserves(d, Kept) ==
    /\ \A p \in Kept :
          (p \in DOMAIN fs /\ fs[p] # "") => (p \in DOMAIN fs' /\ fs'[p] = fs[p])
    /\ ExamplesOf(d) \in dirs =>
          /\ ExamplesOf(d) \in dirs'
          /\ \A p \in FilesUnder(fs, ExamplesOf(d)) : p \in DOMAIN fs' /\ fs'[p] = fs[p]

IsPopulate == ncalls' = ncalls + 1 /\ Reached(steps', "touch_readme")

IsMove ==
    /\ IsCall("setup_repository")
    /\ call'.app # None
    /\ Get(call'.app) \in DOMAIN fs

MovedTo(c) == File(Get(c.path), Get(c.app).stem, ".py")

NoTemplateWritten(d) ==
    /\ ~Reached(steps', "write_app")
    /\ AppOf(d) \in DOMAIN fs' <=> AppOf(d) \in DOMAIN fs
    /\ AppOf(d) \in DOMAIN fs => fs'[AppOf(d)] = fs[AppOf(d)]

\* C5 as stated: after populate with an existing source_app_file, the file
\* is gone from its original path, <stem>.py at the root of the working copy
\* holds its content, and no template app.py was written.
C5_Original ==
    [][ IsMove =>
          /\ Get(call'.app) \notin DOMAIN fs'
          /\ MovedTo(call') \in DOMAIN fs'
          /\ fs'[MovedTo(call')] = fs[Get(call'.app)]
          /\ NoTemplateWritten(Get(call'.path))
      ]_vars

\* C5 amended: after populate with an existing source_app_file, <stem>.py at
\* the root of the working copy holds the content of the file and no template
\* app.py was written; the file is gone from its original path unless that
\* path is <root>/<stem>.py itself, in which case it stays where it is.
C5_MoveNotCopy ==
    [][ IsMove =>
          /\ MovedTo(call') \in DOMAIN fs'
          /\ fs'[MovedTo(call')] = fs[Get(call'.app)]
          /\ Get(call'.app) # MovedTo(call') => Get(call'.app) \notin DOMAIN fs'
          /\ NoTemplateWritten(Get(call'.path))
          /\ DOMAIN fs' \subseteq DOMAIN fs \cup {MovedTo(call'), RequirementsOf(Get(call'.path)),
                                                  ReadmeOf(Get(call'.path))}
      ]_vars

\* populate moved tool.txt of the current directory to tool.py of the working copy
C5_Witness ==
    /\ call.op = "setup_repository"
    /\ call.app = Some(File(<<>>, "tool", ".txt"))
    /\ File(<<>>, "tool", ".txt") \notin DOMAIN fs
    /\ File(Get(call.path), "tool", ".py") \in DOMAIN fs
    /\ fs[File(Get(call.path), "tool", ".py")] = "tool code"
    /\ Reached(steps, "git_push")
    /\ err = NoError

\* C6: after populate without source_app_file, app.py at the root of the
\* working copy holds the template, whatever it held before.
C6_TemplateWritten ==
    [][ (ncalls' = ncalls + 1 /\ call'.app = None /\ Reached(steps', "write_app")) =>
          LET d == PopulatedDir(call')
          IN  /\ call'.op \in {"setup_repository", "create_repository"}
              /\ AppOf(d) \in DOMAIN fs'
              /\ fs'[AppOf(d)] = AppTemplate
      ]_vars

\* populate without source_app_file over a working copy cloned from a
\* repository that held another app.py
C6_Witness ==
    /\ call.op \in {"setup_repository", "create_repository"}
    /\ call.app = None
    /\ Reached(steps, "write_app")
    /\ LET d == PopulatedDir(call)
       IN  /\ d \in DOMAIN clones
           /\ CatOf(d) \in DOMAIN fs
           /\ fs[AppOf(d)] = AppTemplate
           /\ hub[clones[d].remote].files[File(<<>>, "app", ".py")] = "old app"

C8_NothingToCommitIsSuccess ==
    ~( /\ LastStep(steps) = "git_commit"
       /\ err = "EnvironmentError"
       /\ steps[Len(steps)].dir = PopulatedDir(call) )

\* C9: a run of create_repository that is given an existing source_app_file,
\* and whose remote calls all succeed, ends with <destination>/<repo_name>/
\* <stem>.py holding the code of the file and the file gone from its path.
C9_ProvisionHonoursSourceAppFile ==
    [][ ( /\ IsCall("create_repository")
          /\ call'.app # None
          /\ call'.env = AllOk
          /\ Get(call'.app) \in DOMAIN fs
          /\ IsEmptyDir(fs, dirs, PopulatedDir(call')) ) =>
          LET d == PopulatedDir(call')
              src == Get(call'.app)
          IN  /\ src \notin DOMAIN fs'
              /\ File(d, src.stem, ".py") \in DOMAIN fs'
              /\ fs'[File(d, src.stem, ".py")] = fs[src]
              /\ ~Reached(steps', "write_app")
      ]_vars

\* C10: a clone made by clone_repository_from_hub with a destination
\* directory that exists is made in <destination>/<repo_name>, also when
\* that directory does not exist yet.
C10_TargetUnderDestination ==
    [][ ( /\ IsCall("hub.clone_repository_from_hub")
          /\ Path(call'.destination) \in dirs
          /\ err' = NoError ) =>
          /\ Reached(steps', "clone")
          /\ steps'[1].dir = Join(Path(call'.destination), call'.repo_name)
      ]_vars

====
